---- MODULE Spec2Model ----
(***************************************************************************)
(* Airport departure planner (src/main.py, src/aws_scheduler.py).          *)
(*                                                                         *)
(* One run of run_airport_multi_agent: the five crew stages produce their  *)
(* outputs, the departure reminders are registered, the trip is appended   *)
(* to user_memory.json, and the e-mail reminders are registered.           *)
(* The trip history store (load_user_memory / append_trip_memory /         *)
(* save_user_memory) is also modelled on its own, under StoreSpec and      *)
(* StoreCrashSpec.                                                         *)
(*                                                                         *)
(* Time is counted in whole hours on the UTC axis.  A local timestamp is   *)
(* a wall-clock hour together with its UTC offset (or no offset).          *)
(***************************************************************************)
EXTENDS Integers, Sequences, FiniteSets, TLC

VARIABLES
    pc,                 \* position of the run / "Store" for the store specifications
    now,                \* datetime.now(timezone.utc) of the run, in hours
    email,              \* user_input_hint["contact"]["email"] is set
    cfg,                \* environment configuration read by aws_scheduler.py
    memfile,            \* content of user_memory.json
    memfile0,           \* content of user_memory.json when the behaviour started
    user_profile_json,  \* parse_json_safe(output of user_profile_task)
    flight_json,        \* parse_json_safe(output of flight_task)
    parking_json,       \* parse_json_safe(output of parking_task)
    departure_json,     \* parse_json_safe(output of departure_task)
    notif_raw,          \* output of notif_task
    calls,              \* registrar invocations made so far, in order
    seqno,              \* number of append_trip_memory calls made so far
    appended,           \* entries whose append_trip_memory completed, in order
    crashes,            \* number of writes of user_memory.json that stopped part-way
    lastOp,             \* outcome of the last store operation
    inp,                \* argument of the function under study (function specifications)
    out,                \* its result, once it has been applied
    ACTIVE_MCP_ADAPTERS, \* mcp_loader.ACTIVE_MCP_ADAPTERS: the adapters to close
    entered,            \* servers whose adapter.__enter__() returned in this run
    exit_calls,         \* per server, the number of adapter.__exit__ calls made
    exit_failed,        \* servers whose adapter.__exit__ raised
    mcp_error,          \* what ended the run: "none" while it has not ended
    rpc,                \* per concurrent run, its position in append_trip_memory
    loaded,             \* per concurrent run, the memory its load_user_memory returned
    overlap             \* a run loaded the file while the other held a loaded copy

vars == <<pc, now, email, cfg, memfile, memfile0, user_profile_json, flight_json,
          parking_json, departure_json, notif_raw, calls, seqno, appended, crashes,
          lastOp, inp, out, ACTIVE_MCP_ADAPTERS, entered, exit_calls, exit_failed,
          mcp_error, rpc, loaded, overlap>>

runVars == <<pc, now, email, cfg, user_profile_json, flight_json, parking_json,
             departure_json, notif_raw, calls>>

----------------------------------------------------------------------------
(* Bounds of the model *)

\* greatest number of append_trip_memory calls in one behaviour of the store
MaxAppends == 25
\* greatest number of entries user_memory.json holds when a behaviour starts
MaxInitLen == 22
\* greatest number of writes of user_memory.json that stop part-way
MaxCrashes == 1
\* latest departure considered, in hours after now (Asia/Seoul reading)
MaxAhead == 6
\* latest wall-clock hour of a datetime given to _format_at_expression
MaxWall == 23
\* greatest number of tokens in a text with arrays given to parse_json_safe
MaxOrderLen == 5
\* greatest number of tokens in a text given to parse_json_safe
MaxTextLen == 5
\* greatest number of tokens in a notification text given to the splitter
MaxNotifLen == 4

(* Program constants *)

\* history[-20:]
MaxHistory == 20
\* ZoneInfo("Asia/Seoul") is UTC+9
KstOffset == 9
\* timedelta(hours=5), timedelta(hours=2)
Hours5 == 5
Hours2 == 2

----------------------------------------------------------------------------
(* Trip history store: user_memory.json *)

\* Contents of user_memory.json.  kind:
\*   "absent"       the file does not exist
\*   "unparseable"  the file exists, json.load (or open) raises: garbage, empty
\*                  or truncated document, unreadable file
\*   "list"         a JSON document that is not an object (e.g. [])
\*   "dict_nohist"  an object without the key trip_history
\*   "dict_null"    an object whose trip_history is null
\*   "dict_ok"      an object whose trip_history is the list hist
File(kind, hist) == [kind |-> kind, hist |-> hist]

\* entries stored before the behaviour started are -n .. -1, oldest first
OldEntries(n) == [i \in 1..n |-> i - n - 1]

InitialFiles ==
    {File(k, <<>>) : k \in {"absent", "unparseable", "list", "dict_nohist", "dict_null"}}
    \cup {File("dict_ok", OldEntries(n)) : n \in 0..MaxInitLen}

\* load_user_memory: the parsed document, or {"trip_history": []} when the file
\* is absent or reading it raises.
load_user_memory(f) ==
    IF f.kind \in {"absent", "unparseable"}
    THEN File("dict_ok", <<>>)
    ELSE f

\* history[-20:]
KeepRecent_all(history) == history
KeepRecent_head(history) ==
    IF Len(history) <= MaxHistory THEN history ELSE SubSeq(history, 1, MaxHistory)
KeepRecent(history) ==
    IF Len(history) <= MaxHistory
    THEN history
    ELSE SubSeq(history, Len(history) - MaxHistory + 1, Len(history))

\* save_user_memory: open(MEMORY_FILE, "w") truncates the file, json.dump then
\* writes the document.  written = FALSE: the write stops part-way (json.dump
\* or the file system raises, or the process is stopped), leaving a truncated
\* document behind.
save_user_memory(memory, written) ==
    IF written THEN memory ELSE File("unparseable", <<>>)

\* append_trip_memory on file content f.  outcome: "ok", "raised" (an
\* exception before anything is written) or "save_failed" (the write stopped
\* part-way); file: the content of user_memory.json afterwards.
append_trip_memory(f, entry, written) ==
    LET memory == load_user_memory(f) IN
    IF memory.kind = "list"
    THEN \* memory.get: 'list' object has no attribute 'get'
         [outcome |-> "raised", file |-> f]
    ELSE IF memory.kind = "dict_null"
    THEN \* history is None: None.append raises
         [outcome |-> "raised", file |-> f]
    ELSE LET history == Append(memory.hist, entry)
             saved == File("dict_ok", KeepRecent(history))
         IN [outcome |-> IF written THEN "ok" ELSE "save_failed",
             file |-> save_user_memory(saved, written)]

----------------------------------------------------------------------------
(* Values the stages produce *)

\* A departure timestamp string of a flight record.  k:
\*   "absent"  the field is missing or empty (falsy)
\*   "bad"     a value datetime.fromisoformat cannot parse
\*   "naive"   an ISO-8601 timestamp without offset, wall-clock hour wall
\*   "aware"   an ISO-8601 timestamp with explicit offset off (hours)
Ts(k, wall, off) == [k |-> k, wall |-> wall, off |-> off]
AbsentTs == Ts("absent", 0, 0)
BadTs == Ts("bad", 0, 0)

\* wall-clock hours: read as Asia/Seoul they are 1 .. MaxAhead hours after now = 0
Walls == {KstOffset + d : d \in 1..MaxAhead}
Timestamps ==
    {AbsentTs, BadTs}
    \cup {Ts("naive", w, 0) : w \in Walls}
    \cup {Ts("aware", w, o) : w \in Walls, o \in {0, KstOffset}}

\* An element of a flight list: a string (k = "str") or a flight object with
\* the fields departure_time_local (dep) and departure_time (alt).
Elem(k, dep, alt) == [k |-> k, dep |-> dep, alt |-> alt]
StrElem == Elem("str", AbsentTs, AbsentTs)
LateTs == Ts("naive", KstOffset + MaxAhead, 0)
Elems ==
    {StrElem}
    \cup {Elem("flight", t, AbsentTs) : t \in Timestamps}
    \cup {Elem("flight", AbsentTs, LateTs)}
SmallElems ==
    {StrElem, Elem("flight", BadTs, AbsentTs), Elem("flight", LateTs, AbsentTs),
     Elem("flight", AbsentTs, LateTs)}
OtherFlight == Elem("flight", Ts("naive", KstOffset + 1, 0), AbsentTs)

\* parse_json_safe(output of flight_task).  shape:
\*   "none"        no record
\*   "wrapper"     an object with the key best_flights, holding the list items
\*   "altwrapper"  an object with the key flights (and no best_flights)
\*   "list"        a JSON list, items
\*   "single"      an object that is one flight itself, items = <<the flight>>
FlightJson(shape, items) == [shape |-> shape, items |-> items]
NoFlightJson == FlightJson("none", <<>>)
FlightJsons ==
    {NoFlightJson, FlightJson("wrapper", <<>>), FlightJson("list", <<>>)}
    \cup {FlightJson("wrapper", <<e>>) : e \in Elems}
    \cup {FlightJson("wrapper", <<e, OtherFlight>>) : e \in SmallElems}
    \cup {FlightJson("altwrapper", <<e>>) : e \in SmallElems}
    \cup {FlightJson("list", <<e>>) : e \in SmallElems}
    \cup {FlightJson("single", <<e>>) : e \in SmallElems \ {StrElem}}

\* parse_json_safe(output of a stage): no record, a non-empty JSON list, or a
\* non-empty object; home: the object has a non-empty home_address.
Record(kind, home) == [kind |-> kind, home |-> home]
NoRecord == Record("none", FALSE)
ProfileJsons ==
    {NoRecord, Record("list", FALSE), Record("dict", FALSE), Record("dict", TRUE)}
StageJsons == {NoRecord, Record("list", FALSE), Record("dict", FALSE)}
Truthy(rec) == rec.kind # "none"
TsTruthy(t) == t.k # "absent"

\* Output of notif_task: None, or a text.  A text is a sequence of tokens:
\* "M5" is the marker "### 5(hours) before", "M2" the marker "### 2(hours)
\* before", "sp" is whitespace, anything else is ordinary text.
Notif(none, text) == [none |-> none, text |-> text]
NoNotif == Notif(TRUE, <<>>)
NotifRaws ==
    {NoNotif, Notif(FALSE, <<"a">>), Notif(FALSE, <<"M5", "a">>),
     Notif(FALSE, <<"M5", "sp", "a", "sp", "M2", "b">>)}

\* Environment of aws_scheduler.py: everything set, or one setting missing.
\* enabled is the string os.getenv("ENABLE_AWS_SCHEDULER") returns: "unset"
\* (None or the empty string), "false" (the flag written as false / False / 0)
\* or "true"; client: boto3.client succeeded; lambda_arn, role_arn: the
\* variable is set and not empty.
Config(enabled, client, lambda_arn, role_arn) ==
    [enabled |-> enabled, client |-> client, lambda_arn |-> lambda_arn,
     role_arn |-> role_arn]
AllSet == Config("true", TRUE, TRUE, TRUE)
Configs ==
    {AllSet, Config("unset", TRUE, TRUE, TRUE), Config("false", TRUE, TRUE, TRUE),
     Config("true", FALSE, TRUE, TRUE), Config("true", TRUE, FALSE, TRUE),
     Config("true", TRUE, TRUE, FALSE)}

----------------------------------------------------------------------------
(* extract_alert_bodies *)

\* index of the first occurrence of tok in text, 0 when there is none
RECURSIVE FirstIndexFrom(_, _, _)
FirstIndexFrom(text, tok, i) ==
    IF i > Len(text) THEN 0
    ELSE IF text[i] = tok THEN i
    ELSE FirstIndexFrom(text, tok, i + 1)
FirstIndex(text, tok) == FirstIndexFrom(text, tok, 1)

\* str.strip()
RECURSIVE Strip(_)
Strip(text) ==
    IF text = <<>> THEN text
    ELSE IF Head(text) = "sp" THEN Strip(Tail(text))
    ELSE IF text[Len(text)] = "sp" THEN Strip(SubSeq(text, 1, Len(text) - 1))
    ELSE text

\* a text value, or None
Body(none, text) == [none |-> none, text |-> text]
NoneBody == Body(TRUE, <<>>)

\* extract_alert_bodies(notification_raw): <<section_5, section_2 or None>>
extract_alert_bodies_whole(nr) ==
    IF nr.none \/ nr.text = <<>>
    THEN <<NoneBody, NoneBody>>
    ELSE <<Body(FALSE, Strip(nr.text)), NoneBody>>
extract_alert_bodies_nostrip(nr) ==
    IF nr.none \/ nr.text = <<>> \/ FirstIndex(nr.text, "M5") = 0
    THEN <<NoneBody, NoneBody>>
    ELSE LET i5 == FirstIndex(nr.text, "M5")
             after_5 == SubSeq(nr.text, i5 + 1, Len(nr.text))
             i2 == FirstIndex(after_5, "M2")
             section_5 == IF i2 = 0 THEN after_5 ELSE SubSeq(after_5, 1, i2 - 1)
             section_2 == IF i2 = 0 THEN <<>>
                          ELSE SubSeq(after_5, i2 + 1, Len(after_5))
         IN <<Body(FALSE, section_5),
              IF section_2 = <<>> THEN NoneBody ELSE Body(FALSE, section_2)>>
extract_alert_bodies(nr) ==
    IF nr.none \/ nr.text = <<>>
    THEN <<NoneBody, NoneBody>>
    ELSE LET i5 == FirstIndex(nr.text, "M5") IN
         IF i5 = 0
         THEN <<NoneBody, NoneBody>>
         ELSE LET after_5 == SubSeq(nr.text, i5 + 1, Len(nr.text))
                  i2 == FirstIndex(after_5, "M2")
                  section_5 == IF i2 = 0 THEN Strip(after_5)
                               ELSE Strip(SubSeq(after_5, 1, i2 - 1))
                  section_2 == IF i2 = 0 THEN <<>>
                               ELSE Strip(SubSeq(after_5, i2 + 1, Len(after_5)))
              IN <<Body(FALSE, section_5),
                   IF section_2 = <<>> THEN NoneBody ELSE Body(FALSE, section_2)>>

\* str(notif_raw)
StrOf(nr) == IF nr.none THEN <<"None">> ELSE nr.text
\* "not body": None or the empty text
Falsy_emptyonly(b) == ~b.none /\ b.text = <<>>
Falsy(b) == b.none \/ b.text = <<>>

----------------------------------------------------------------------------
(* Schedule registrar: src/aws_scheduler.py *)

\* "not ENABLE_AWS_SCHEDULER": a string is falsy only when it is empty
FlagTruthy(flag) == flag # "unset"

\* _ensure_scheduler_available
ensure_scheduler_available(c) ==
    FlagTruthy(c.enabled) /\ c.client /\ c.lambda_arn /\ c.role_arn

\* A datetime: wall-clock hour, UTC offset, and whether it carries tzinfo.
Instant(wall, off, aware) == [wall |-> wall, off |-> off, aware |-> aware]
UtcInstant(h) == Instant(h, 0, TRUE)

\* A ScheduleExpression: form "at" (one-shot), the hour it names read as UTC
Expression(form, hour) == [form |-> form, hour |-> hour]

\* _format_at_expression: a naive datetime is taken as UTC, an aware one is
\* converted with astimezone(timezone.utc); then tzinfo is removed and the
\* wall-clock time is printed inside at(...)
format_at_expression_noconv(dt) == Expression("at", dt.wall)
format_at_expression(dt) ==
    LET run_time_utc == IF dt.aware THEN Instant(dt.wall - dt.off, 0, TRUE)
                        ELSE Instant(dt.wall, 0, TRUE)
    IN Expression("at", run_time_utc.wall)

\* One invocation of a registrar function.  outcome:
\*   "skipped"     a precondition is missing, scheduler.create_schedule not called
\*   "registered"  scheduler.create_schedule returned
\*   "failed"      scheduler.create_schedule raised
\* raises: an exception leaves the registrar function (there is no try around
\* scheduler.create_schedule, so its exception does); expr: the
\* ScheduleExpression of the job.
\* fn: "departure" (create_departure_notification_schedule) or "email"
\* (create_email_schedule); payload: the Input of the Lambda target.
Call(fn, tag, run_time, subject, body, payload, c, fails) ==
    [fn |-> fn, tag |-> tag, run_time |-> run_time, subject |-> subject,
     body |-> body, payload |-> payload,
     expr |-> format_at_expression(UtcInstant(run_time)),
     outcome |-> IF ~ensure_scheduler_available(c) THEN "skipped"
                 ELSE IF fails THEN "failed" ELSE "registered",
     raises |-> ensure_scheduler_available(c) /\ fails]

\* run_time_utc is always timezone-aware here (astimezone(timezone.utc)), so
\* the ValueError of the first lines is never raised.
create_email_schedule_sametag(run_time_utc, subject, body, tag, c, fails) ==
    Call("email", "5h_before", run_time_utc, subject, body,
         [subject |-> subject, body |-> body], c, fails)
create_email_schedule(run_time_utc, subject, body, tag, c, fails) ==
    Call("email", tag, run_time_utc, subject, body,
         [subject |-> subject, body |-> body], c, fails)

create_departure_notification_schedule(run_time_utc, tag, payload, c, fails) ==
    Call("departure", tag, run_time_utc, "", NoneBody, payload, c, fails)

\* the scheduler was asked to create a job
Asked(call) == call.outcome # "skipped"

----------------------------------------------------------------------------
(* Scheduling of the departure reminders: run_airport_multi_agent, step 5 *)

Result(raised, cs) == [raised |-> raised, calls |-> cs]

\* common_payload of lines 655-664, and {**common_payload, "tag": tag}
CommonPayload(best_flight, pj, kj, dj) ==
    [best_flight |-> best_flight, user_profile |-> pj, best_parking |-> kj,
     best_departure_gate |-> dj]
Payload_fixedtag(common_payload, tag) ==
    [common |-> common_payload, tag |-> "2h_before"]
Payload(common_payload, tag) == [common |-> common_payload, tag |-> tag]

\* best_flights of lines 629-633: a non-empty JSON list has no .get, the
\* exception is caught and no flight is selected
BestFlights_any(fj) == fj.items
BestFlights(fj) == IF fj.shape = "wrapper" THEN fj.items ELSE <<>>

\* the instant a timestamp denotes, as lines 643-653 read it
DepUtc(t) == t.wall - (IF t.k = "naive" THEN KstOffset ELSE t.off)

\* lines 629-680.  raised: an exception leaves the block (and the run);
\* calls: the registrar invocations made.  f5, f2: scheduler.create_schedule
\* raises in the first / second invocation.
DepartureAlerts(fj, pj, kj, dj, em, c, f5, f2) ==
    LET best_flights == BestFlights(fj) IN
    IF best_flights = <<>> \/ ~Truthy(pj)
    THEN Result(FALSE, <<>>)
    ELSE LET best_flight == best_flights[1] IN
         IF best_flight.k = "str"
         THEN \* line 636: 'str' object has no attribute 'get'
              Result(TRUE, <<>>)
         ELSE IF pj.kind = "list"
         THEN \* line 637: 'list' object has no attribute 'get'
              Result(TRUE, <<>>)
         ELSE IF ~(TsTruthy(best_flight.dep) /\ pj.home /\ em)
         THEN Result(FALSE, <<>>)
         ELSE IF best_flight.dep.k = "bad"
         THEN \* fromisoformat raises, caught at line 677
              Result(FALSE, <<>>)
         ELSE IF kj.kind = "list" \/ dj.kind = "list"
         THEN \* lines 662-664: .get on a list raises, caught at line 677
              Result(FALSE, <<>>)
         ELSE LET dt_5h_utc == DepUtc(best_flight.dep) - Hours5
                  dt_2h_utc == DepUtc(best_flight.dep) - Hours2
                  common_payload == CommonPayload(best_flight, pj, kj, dj)
                  c5 == create_departure_notification_schedule(
                            dt_5h_utc, "5h_before",
                            Payload(common_payload, "5h_before"), c, f5)
                  c2 == create_departure_notification_schedule(
                            dt_2h_utc, "2h_before",
                            Payload(common_payload, "2h_before"), c, f2)
              IN IF c5.raises
                 THEN \* the exception is caught at line 677, after the block
                      Result(FALSE, <<c5>>)
                 ELSE Result(FALSE, <<c5, c2>>)

----------------------------------------------------------------------------
(* Scheduling of the e-mail reminders: schedule_email_alerts_from_summary *)

\* lines 198-218
Flights(fj) == fj.items

\* departure_time_local or departure_time (or departure)
DepartureTimeStr(first) == IF TsTruthy(first.dep) THEN first.dep ELSE first.alt

\* lines 248-249: the wall-clock time is read as Asia/Seoul whatever offset
\* the timestamp carries (replace(tzinfo=...))
DepUtcSeoul(t) == t.wall - KstOffset

\* lines 251-253: notify_5h, notify_2h
Triggers_swapped(dep_utc) == <<dep_utc - Hours2, dep_utc - Hours5>>
Triggers(dep_utc) == <<dep_utc - Hours5, dep_utc - Hours2>>

\* lines 262-267: body_5h, body_2h: the two sections, or twice the whole
\* text when one of them is None or empty
ChooseBodies_each(nr) ==
    LET bodies == extract_alert_bodies(nr) IN
    <<IF Falsy(bodies[1]) THEN Body(FALSE, StrOf(nr)) ELSE bodies[1],
      IF Falsy(bodies[2]) THEN Body(FALSE, StrOf(nr)) ELSE bodies[2]>>
ChooseBodies(nr) ==
    LET bodies == extract_alert_bodies(nr) IN
    IF Falsy(bodies[1]) \/ Falsy(bodies[2])
    THEN <<Body(FALSE, StrOf(nr)), Body(FALSE, StrOf(nr))>>
    ELSE bodies

\* schedule_email_alerts_from_summary(summary) at instant t_now.
EmailAlerts(em, fj, nr, c, t_now, f5, f2) ==
    IF ~em
    THEN Result(FALSE, <<>>)
    ELSE LET flights == Flights(fj) IN
    IF flights = <<>>
    THEN Result(FALSE, <<>>)
    ELSE LET first == flights[1] IN
    IF first.k = "str"
    THEN \* line 226: 'str' object has no attribute 'get'
         Result(TRUE, <<>>)
    ELSE LET departure_time_str == DepartureTimeStr(first) IN
    IF ~TsTruthy(departure_time_str) \/ departure_time_str.k = "bad"
    THEN Result(FALSE, <<>>)
    ELSE LET dep_utc == DepUtcSeoul(departure_time_str)
             notify_5h == Triggers(dep_utc)[1]
             notify_2h == Triggers(dep_utc)[2]
             body_5h == ChooseBodies(nr)[1]
             body_2h == ChooseBodies(nr)[2]
             c5 == create_email_schedule(notify_5h, "subject_5h", body_5h,
                                         "5h_before", c, f5)
             c2 == create_email_schedule(notify_2h, "subject_2h", body_2h,
                                         "2h_before", c, f2)
             first_calls == IF notify_5h > t_now THEN <<c5>> ELSE <<>>
         IN IF first_calls # <<>> /\ c5.raises
            THEN Result(TRUE, first_calls)
            ELSE IF notify_2h > t_now
            THEN Result(c2.raises, first_calls \o <<c2>>)
            ELSE Result(FALSE, first_calls)

----------------------------------------------------------------------------
(* State of the MCP connections and of concurrent appends, at rest *)

\* MCP_SERVER_URLS, in the order load_flight_mcp_tools connects them
Servers == <<"icn", "flight", "fli", "amadeus">>
ServerSet == {Servers[i] : i \in 1..Len(Servers)}

mcpVars == <<ACTIVE_MCP_ADAPTERS, entered, exit_calls, exit_failed, mcp_error>>

\* no connection was made
McpIdle ==
    /\ ACTIVE_MCP_ADAPTERS = <<>>
    /\ entered = {}
    /\ exit_calls = [s \in ServerSet |-> 0]
    /\ exit_failed = {}
    /\ mcp_error = "none"

\* two pipeline runs that may execute append_trip_memory at the same time
Runs == {1, 2}

concVars == <<rpc, loaded, overlap>>

\* no run is inside append_trip_memory
ConcIdle ==
    /\ rpc = [r \in Runs |-> "idle"]
    /\ loaded = [r \in Runs |-> File("absent", <<>>)]
    /\ overlap = FALSE

----------------------------------------------------------------------------
(* One run of run_airport_multi_agent *)

RunFiles == {f \in InitialFiles : Len(f.hist) <= 1}

Init ==
    /\ pc = "Start"
    /\ now = 0
    /\ email = FALSE
    /\ cfg \in Configs
    /\ memfile \in RunFiles
    /\ memfile0 = memfile
    /\ user_profile_json = NoRecord
    /\ flight_json = NoFlightJson
    /\ parking_json = NoRecord
    /\ departure_json = NoRecord
    /\ notif_raw = NoNotif
    /\ calls = <<>>
    /\ seqno = 0
    /\ appended = <<>>
    /\ crashes = 0
    /\ lastOp = "none"
    /\ inp = "none"
    /\ out = "none"
    /\ McpIdle
    /\ ConcIdle

storeVars == <<memfile, memfile0, seqno, appended, crashes, lastOp>>
funVars == <<inp, out>>

\* lines 316-384: the previous trips are read and the user is asked for the
\* trip; memory.get raises when user_memory.json holds a JSON list
CollectInput ==
    /\ pc = "Start"
    /\ IF load_user_memory(memfile).kind = "list"
       THEN pc' = "Aborted" /\ email' = email
       ELSE pc' = "CollectingProfile" /\ email' \in BOOLEAN
    /\ UNCHANGED <<now, cfg, user_profile_json, flight_json, parking_json,
                   departure_json, notif_raw, calls, storeVars, funVars, mcpVars, concVars>>

\* crew.kickoff(), Process.sequential: the five tasks in the order of the
\* tasks list; each output is parsed by parse_json_safe after the kickoff
ProfileStage ==
    /\ pc = "CollectingProfile"
    /\ user_profile_json' \in ProfileJsons
    /\ pc' = "RecommendingFlight"
    /\ UNCHANGED <<now, email, cfg, flight_json, parking_json, departure_json,
                   notif_raw, calls, storeVars, funVars, mcpVars, concVars>>

FlightStage ==
    /\ pc = "RecommendingFlight"
    /\ flight_json' \in FlightJsons
    /\ pc' = "RecommendingParking"
    /\ UNCHANGED <<now, email, cfg, user_profile_json, parking_json,
                   departure_json, notif_raw, calls, storeVars, funVars, mcpVars, concVars>>

ParkingStage ==
    /\ pc = "RecommendingParking"
    /\ parking_json' \in StageJsons
    /\ pc' = "RecommendingGate"
    /\ UNCHANGED <<now, email, cfg, user_profile_json, flight_json,
                   departure_json, notif_raw, calls, storeVars, funVars, mcpVars, concVars>>

GateStage ==
    /\ pc = "RecommendingGate"
    /\ departure_json' \in StageJsons
    /\ pc' = "ComposingNotification"
    /\ UNCHANGED <<now, email, cfg, user_profile_json, flight_json,
                   parking_json, notif_raw, calls, storeVars, funVars, mcpVars, concVars>>

NotificationStage ==
    /\ pc = "ComposingNotification"
    /\ notif_raw' \in NotifRaws
    /\ pc' = "SchedulingAlerts"
    /\ UNCHANGED <<now, email, cfg, user_profile_json, flight_json,
                   parking_json, departure_json, calls, storeVars, funVars, mcpVars, concVars>>

\* lines 620-680
SchedulingAlerts ==
    /\ pc = "SchedulingAlerts"
    /\ \E f5, f2 \in BOOLEAN :
         LET r == DepartureAlerts(flight_json, user_profile_json, parking_json,
                                  departure_json, email, cfg, f5, f2) IN
         /\ calls' = calls \o r.calls
         /\ pc' = IF r.raised THEN "Aborted" ELSE "PersistingHistory"
    /\ UNCHANGED <<now, email, cfg, user_profile_json, flight_json,
                   parking_json, departure_json, notif_raw, storeVars, funVars, mcpVars, concVars>>

PersistingHistory_nowrite ==
    /\ pc = "PersistingHistory"
    /\ pc' = "SchedulingEmails"
    /\ UNCHANGED <<now, email, cfg, user_profile_json, flight_json,
                   parking_json, departure_json, notif_raw, calls, storeVars, funVars, mcpVars, concVars>>

\* lines 683-749: the summary and the reports are written (their file
\* writes are taken to succeed), then append_trip_memory(user_input_hint,
\* summary); an exception of append_trip_memory leaves the run
PersistingHistory ==
    /\ pc = "PersistingHistory"
    /\ LET r == append_trip_memory(memfile, seqno + 1, TRUE) IN
       /\ memfile' = r.file
       /\ lastOp' = r.outcome
       /\ appended' = IF r.outcome = "ok" THEN Append(appended, seqno + 1) ELSE appended
       /\ pc' = IF r.outcome = "ok" THEN "SchedulingEmails" ELSE "Aborted"
    /\ seqno' = seqno + 1
    /\ UNCHANGED <<now, email, cfg, user_profile_json, flight_json,
                   parking_json, departure_json, notif_raw, calls, memfile0, crashes,
                   funVars, mcpVars, concVars>>

\* lines 751-754: every exception of schedule_email_alerts_from_summary is
\* caught; then the run ends
SchedulingEmails ==
    /\ pc = "SchedulingEmails"
    /\ \E f5, f2 \in BOOLEAN :
         LET r == EmailAlerts(email, flight_json, notif_raw, cfg, now, f5, f2) IN
         calls' = calls \o r.calls
    /\ pc' = "Done"
    /\ UNCHANGED <<now, email, cfg, user_profile_json, flight_json,
                   parking_json, departure_json, notif_raw, storeVars, funVars, mcpVars, concVars>>

Next ==
    \/ CollectInput
    \/ ProfileStage
    \/ FlightStage
    \/ ParkingStage
    \/ GateStage
    \/ NotificationStage
    \/ SchedulingAlerts
    \/ PersistingHistory
    \/ SchedulingEmails

Spec == Init /\ [][Next]_vars

----------------------------------------------------------------------------
(* Store specifications: a sequence of operations on user_memory.json *)

StoreInit ==
    /\ pc = "Store"
    /\ now = 0
    /\ email = FALSE
    /\ cfg = AllSet
    /\ memfile \in InitialFiles
    /\ memfile0 = memfile
    /\ user_profile_json = NoRecord
    /\ flight_json = NoFlightJson
    /\ parking_json = NoRecord
    /\ departure_json = NoRecord
    /\ notif_raw = NoNotif
    /\ calls = <<>>
    /\ seqno = 0
    /\ appended = <<>>
    /\ crashes = 0
    /\ lastOp = "none"
    /\ inp = "none"
    /\ out = "none"
    /\ McpIdle
    /\ ConcIdle

\* one append_trip_memory call whose write completes
StoreAppend ==
    /\ pc = "Store"
    /\ seqno < MaxAppends
    /\ LET r == append_trip_memory(memfile, seqno + 1, TRUE) IN
       /\ memfile' = r.file
       /\ lastOp' = r.outcome
       /\ appended' = IF r.outcome = "ok" THEN Append(appended, seqno + 1) ELSE appended
    /\ seqno' = seqno + 1
    /\ UNCHANGED <<runVars, memfile0, crashes, funVars, mcpVars, concVars>>

\* one append_trip_memory call whose write in save_user_memory stops part-way
StoreAppendCrash ==
    /\ pc = "Store"
    /\ seqno < MaxAppends
    /\ crashes < MaxCrashes
    /\ LET r == append_trip_memory(memfile, seqno + 1, FALSE) IN
       /\ memfile' = r.file
       /\ lastOp' = r.outcome
       /\ crashes' = IF r.outcome = "save_failed" THEN crashes + 1 ELSE crashes
    /\ seqno' = seqno + 1
    /\ UNCHANGED <<runVars, memfile0, appended, funVars, mcpVars, concVars>>

\* one load_user_memory call (it never raises: every failure is caught);
\* the log it returns is usable when it is a mapping holding a list (or no
\* trip_history at all)
StoreLoad ==
    /\ pc = "Store"
    /\ lastOp \notin {"load", "load_unusable"}
    /\ lastOp' = IF load_user_memory(memfile).kind \in {"dict_ok", "dict_nohist"}
                  THEN "load" ELSE "load_unusable"
    /\ UNCHANGED <<runVars, memfile, memfile0, seqno, appended, crashes, funVars, mcpVars, concVars>>

StoreNext == StoreAppend \/ StoreLoad
StoreSpec == StoreInit /\ [][StoreNext]_vars

StoreCrashNext == StoreAppend \/ StoreAppendCrash \/ StoreLoad
StoreCrashSpec == StoreInit /\ [][StoreCrashNext]_vars

----------------------------------------------------------------------------
(* Specifications of the pure functions: an input is drawn, the function is
   applied to it once *)

\* every sequence over S of length at most n
SeqsUpTo(S, n) == UNION {[1..k -> S] : k \in 0..n}

\* the variables of the run and of the store, at rest
FunIdle ==
    /\ now = 0
    /\ email = FALSE
    /\ cfg = AllSet
    /\ memfile = File("absent", <<>>)
    /\ memfile0 = memfile
    /\ user_profile_json = NoRecord
    /\ flight_json = NoFlightJson
    /\ parking_json = NoRecord
    /\ departure_json = NoRecord
    /\ notif_raw = NoNotif
    /\ calls = <<>>
    /\ seqno = 0
    /\ appended = <<>>
    /\ crashes = 0
    /\ lastOp = "none"
    /\ McpIdle
    /\ ConcIdle

FunUnchanged ==
    UNCHANGED <<now, email, cfg, user_profile_json, flight_json, parking_json,
                departure_json, notif_raw, calls, storeVars, inp, mcpVars, concVars>>

\* notification texts: None, or any text of at most MaxNotifLen tokens
NotifTokens == {"M5", "M2", "a", "sp"}
SplitInputs ==
    {NoNotif} \cup {Notif(FALSE, t) : t \in SeqsUpTo(NotifTokens, MaxNotifLen)}

SplitInit ==
    /\ pc = "Split"
    /\ inp \in SplitInputs
    /\ out = "none"
    /\ FunIdle

\* body_5h, body_2h = extract_alert_bodies(notif_raw)
SplitApply ==
    /\ pc = "Split"
    /\ out' = extract_alert_bodies(inp)
    /\ pc' = "SplitDone"
    /\ FunUnchanged

SplitSpec == SplitInit /\ [][SplitApply]_vars

----------------------------------------------------------------------------
(* parse_json_safe and extract_json_from_text *)

\* A text handed to the extractor is a sequence of tokens: "{" and "}" are
\* braces, "m" is one member ("key": value) of an object, "v" is a JSON value
\* that is not an object (a number, a string literal, an array), "w" is a
\* word of prose, "sp" is whitespace, "F" is the opening fence ```json and
\* "E" is a bare fence ```; "[" and "]" are the brackets of an array.
JsonTokens == {"{", "}", "m", "v", "w", "sp", "F", "E"}

\* What a parsing step yields: a mapping of n members, another JSON value,
\* None, or an exception.
Parsed(t, n) == [t |-> t, n |-> n]
Mapping(n) == Parsed("dict", n)
JsonValue == Parsed("value", 0)
NoneValue == Parsed("none", 0)
Raised == Parsed("raised", 0)

\* json.loads: whitespace between tokens is ignored; the text must be one
\* object { member* } or one other value (a scalar "v", or an array [ ] that
\* is empty or holds one value), anything else raises
Unspaced(text) == SelectSeq(text, LAMBDA x : x # "sp")
IsJsonObject(s) ==
    /\ Len(s) >= 2
    /\ s[1] = "{"
    /\ s[Len(s)] = "}"
    /\ \A i \in 2..(Len(s) - 1) : s[i] = "m"
RECURSIVE IsJsonArray(_)
IsJsonArray(s) ==
    /\ Len(s) >= 2
    /\ s[1] = "["
    /\ s[Len(s)] = "]"
    /\ LET interior == SubSeq(s, 2, Len(s) - 1) IN
       \/ interior = <<>>
       \/ interior = <<"v">>
       \/ IsJsonObject(interior)
       \/ IsJsonArray(interior)
json_loads(text) ==
    LET s == Unspaced(text) IN
    IF IsJsonObject(s) THEN Mapping(Len(s) - 2)
    ELSE IF s = <<"v">> \/ IsJsonArray(s) THEN JsonValue
    ELSE Raised

\* str.rfind: index of the last occurrence of tok in text, 0 when there is none
RECURSIVE LastIndexFrom(_, _, _)
LastIndexFrom(text, tok, i) ==
    IF i < 1 THEN 0
    ELSE IF text[i] = tok THEN i
    ELSE LastIndexFrom(text, tok, i - 1)
LastIndex(text, tok) == LastIndexFrom(text, tok, Len(text))

\* index of the first ``` in text (the ``` of a ```json included)
FirstFence(text) ==
    LET e == FirstIndex(text, "E")
        f == FirstIndex(text, "F")
    IN IF e = 0 THEN f ELSE IF f = 0 THEN e ELSE IF e < f THEN e ELSE f

\* re.search(r"\{.*\}", text, re.S) and json.loads of the match
GreedyBraces(text) ==
    LET a == FirstIndex(text, "{")
        b == LastIndex(text, "}")
    IN IF a = 0 \/ b < a THEN Raised ELSE json_loads(SubSeq(text, a, b))

\* extract_json_from_text: the interior of the first ```json ... ``` block
\* when there is one, else the text from the first "{" to the last "}"
extract_json_from_text_nofence(text) == GreedyBraces(text)
extract_json_from_text(text) ==
    LET f == FirstIndex(text, "F")
        rest == SubSeq(text, f + 1, Len(text))
        e == IF f = 0 THEN 0 ELSE FirstFence(rest)
    IN IF f > 0 /\ e > 0
       THEN json_loads(Strip(SubSeq(rest, 1, e - 1)))
       ELSE GreedyBraces(text)

\* step 3 of parse_json_safe: text.index("{") raises when there is no "{",
\* text.rfind("}") is -1 when there is no "}" and the slice is then empty
OutermostBraces(text) ==
    LET start == FirstIndex(text, "{")
        end == LastIndex(text, "}")
    IN IF start = 0 THEN Raised ELSE json_loads(SubSeq(text, start, end))

\* The argument of parse_json_safe: None, a dict of n members, a str, or a
\* value of another type.
Raw(kind, text, n) == [kind |-> kind, text |-> text, n |-> n]

parse_json_safe_unguarded(raw) ==
    IF raw.kind = "str"
    THEN LET text == Strip(raw.text)
             r1 == extract_json_from_text(text)
             r2 == json_loads(text)
         IN IF r1.t # "raised" THEN r1
            ELSE IF r2.t # "raised" THEN r2
            ELSE OutermostBraces(text)
    ELSE IF raw.kind = "dict" THEN Mapping(raw.n) ELSE NoneValue
parse_json_safe(raw) ==
    IF raw.kind = "none" THEN NoneValue
    ELSE IF raw.kind = "dict" THEN Mapping(raw.n)
    ELSE IF raw.kind = "str"
    THEN LET text == Strip(raw.text)
             r1 == extract_json_from_text(text)
             r2 == json_loads(text)
             r3 == OutermostBraces(text)
         IN IF r1.t # "raised" THEN r1
            ELSE IF r2.t # "raised" THEN r2
            ELSE IF r3.t # "raised" THEN r3
            ELSE NoneValue
    ELSE NoneValue

ParseInputs ==
    {Raw("none", <<>>, 0), Raw("other", <<>>, 0)}
    \cup {Raw("dict", <<>>, n) : n \in 0..2}
    \cup {Raw("str", t, 0) : t \in SeqsUpTo(JsonTokens, MaxTextLen)}

ParseInit ==
    /\ pc = "Parse"
    /\ inp \in ParseInputs
    /\ out = "none"
    /\ FunIdle

\* flight_json = parse_json_safe(flight_raw)
ParseApply ==
    /\ pc = "Parse"
    /\ out' = parse_json_safe(inp)
    /\ pc' = "Parsed"
    /\ FunUnchanged

ParseSpec == ParseInit /\ [][ParseApply]_vars

\* texts with arrays: the tokens of a text that may hold an array around an
\* object
OrderTokens == {"{", "}", "m", "[", "]", "w", "F", "E"}
OrderInputs ==
    {Raw("dict", <<>>, n) : n \in 0..2}
    \cup {Raw("str", t, 0) : t \in SeqsUpTo(OrderTokens, MaxOrderLen)}

ParseOrderInit ==
    /\ pc = "Parse"
    /\ inp \in OrderInputs
    /\ out = "none"
    /\ FunIdle

ParseOrderSpec == ParseOrderInit /\ [][ParseApply]_vars

----------------------------------------------------------------------------
(* _format_at_expression on its own *)

\* datetimes given to the formatter: naive ones, and aware ones in UTC, in
\* Asia/Seoul and in a zone west of Greenwich
FormatOffsets == {0 - 5, 0, KstOffset}
FormatInputs ==
    {Instant(w, o, TRUE) : w \in 0..MaxWall, o \in FormatOffsets}
    \cup {Instant(w, 0, FALSE) : w \in 0..MaxWall}

FormatInit ==
    /\ pc = "Format"
    /\ inp \in FormatInputs
    /\ out = "none"
    /\ FunIdle

\* schedule_expression = _format_at_expression(run_time_utc)
FormatApply ==
    /\ pc = "Format"
    /\ out' = format_at_expression(inp)
    /\ pc' = "Formatted"
    /\ FunUnchanged

FormatSpec == FormatInit /\ [][FormatApply]_vars

----------------------------------------------------------------------------
(* Order of the stages: the tasks list and the context of each Task *)

\* tasks=[...] with Process.sequential: the state of the run while each task
\* executes, in execution order
StageOrder ==
    <<"CollectingProfile", "RecommendingFlight", "RecommendingParking",
      "RecommendingGate", "ComposingNotification">>

\* context=[...] of each Task: the stages whose output it embeds
Context(stage) ==
    CASE stage = "CollectingProfile" -> {}
      [] stage = "RecommendingFlight" -> {"CollectingProfile"}
      [] stage = "RecommendingParking" -> {"CollectingProfile"}
      [] stage = "RecommendingGate" -> {"CollectingProfile", "RecommendingParking"}
      [] stage = "ComposingNotification" ->
             {"CollectingProfile", "RecommendingParking", "RecommendingGate",
              "RecommendingFlight"}

----------------------------------------------------------------------------
(* MCP connections of one run: load_flight_mcp_tools inside the try of
   run_airport_multi_agent, close_all_mcp_adapters in its finally *)

\* the run variables at rest, for the specifications that do not use them
RestOfRun ==
    /\ now = 0
    /\ email = FALSE
    /\ cfg = AllSet
    /\ user_profile_json = NoRecord
    /\ flight_json = NoFlightJson
    /\ parking_json = NoRecord
    /\ departure_json = NoRecord
    /\ notif_raw = NoNotif
    /\ calls = <<>>
    /\ seqno = 0
    /\ appended = <<>>
    /\ crashes = 0
    /\ lastOp = "none"
    /\ inp = "none"
    /\ out = "none"

McpUnchanged ==
    UNCHANGED <<now, email, cfg, user_profile_json, flight_json, parking_json,
                departure_json, notif_raw, calls, storeVars, funVars, concVars>>

McpInit ==
    /\ pc = "Connecting"
    /\ memfile = File("absent", <<>>)
    /\ memfile0 = memfile
    /\ RestOfRun
    /\ McpIdle
    /\ ConcIdle

\* lines 316-388 of main.py: an exception before load_flight_mcp_tools is
\* called goes to the finally clause
FailBeforeConnect ==
    /\ pc = "Connecting"
    /\ ACTIVE_MCP_ADAPTERS = <<>>
    /\ mcp_error' = "before_connect"
    /\ pc' = "Finally"
    /\ UNCHANGED <<ACTIVE_MCP_ADAPTERS, entered, exit_calls, exit_failed>>
    /\ McpUnchanged

\* _connect_single_server(name, url) for the next server of the loop.
\*   "no_url"          the URL is empty: RuntimeError before anything is opened
\*   "connect_failed"  the constructor or __enter__ raises: nothing is opened
\*   "list_failed"     __enter__ returned and the adapter is registered, then
\*                     list(tools_gen) raises
\*   "no_tools"        the adapter is registered, the tool list is empty
\*   "ok"              the tools are returned
\* Every failure is a RuntimeError that leaves load_flight_mcp_tools and the
\* try block of the run.
ConnectServer_appendlate ==
    /\ pc = "Connecting"
    /\ LET name == Servers[Len(ACTIVE_MCP_ADAPTERS) + 1] IN
       \E outcome \in {"no_url", "connect_failed", "list_failed", "no_tools", "ok"} :
          /\ entered' = IF outcome \in {"no_url", "connect_failed"}
                        THEN entered ELSE entered \cup {name}
          /\ ACTIVE_MCP_ADAPTERS' =
                 IF outcome \in {"no_url", "connect_failed", "list_failed"}
                 THEN ACTIVE_MCP_ADAPTERS
                 ELSE Append(ACTIVE_MCP_ADAPTERS, name)
          /\ mcp_error' = IF outcome = "ok" THEN mcp_error ELSE outcome
          /\ pc' = IF outcome # "ok" THEN "Finally"
                   ELSE IF Len(ACTIVE_MCP_ADAPTERS) + 1 = Len(Servers)
                   THEN "Running" ELSE "Connecting"
    /\ UNCHANGED <<exit_calls, exit_failed>>
    /\ McpUnchanged
ConnectServer ==
    /\ pc = "Connecting"
    /\ LET name == Servers[Len(ACTIVE_MCP_ADAPTERS) + 1] IN
       \E outcome \in {"no_url", "connect_failed", "list_failed", "no_tools", "ok"} :
          /\ entered' = IF outcome \in {"no_url", "connect_failed"}
                        THEN entered ELSE entered \cup {name}
          /\ ACTIVE_MCP_ADAPTERS' =
                 IF outcome \in {"no_url", "connect_failed"}
                 THEN ACTIVE_MCP_ADAPTERS
                 ELSE Append(ACTIVE_MCP_ADAPTERS, name)
          /\ mcp_error' = IF outcome = "ok" THEN mcp_error ELSE outcome
          /\ pc' = IF outcome # "ok" THEN "Finally"
                   ELSE IF Len(ACTIVE_MCP_ADAPTERS) + 1 = Len(Servers)
                   THEN "Running" ELSE "Connecting"
    /\ UNCHANGED <<exit_calls, exit_failed>>
    /\ McpUnchanged

\* lines 391-754 of main.py: the stages, the scheduling and the history
\* write either complete or raise; both ways lead to the finally clause
RunStages ==
    /\ pc = "Running"
    /\ \E raised \in BOOLEAN :
          mcp_error' = IF raised THEN "stage_failed" ELSE "none"
    /\ pc' = "Finally"
    /\ UNCHANGED <<ACTIVE_MCP_ADAPTERS, entered, exit_calls, exit_failed>>
    /\ McpUnchanged

\* close_all_mcp_adapters: __exit__ of every registered adapter, an
\* exception of one is caught inside the loop; then the registry is emptied
close_all_mcp_adapters ==
    /\ pc = "Finally"
    /\ LET registered == {ACTIVE_MCP_ADAPTERS[i] : i \in 1..Len(ACTIVE_MCP_ADAPTERS)} IN
       /\ exit_calls' = [s \in ServerSet |->
                            IF s \in registered THEN exit_calls[s] + 1 ELSE exit_calls[s]]
       /\ exit_failed' \in SUBSET registered
    /\ ACTIVE_MCP_ADAPTERS' = <<>>
    /\ pc' = "Exited"
    /\ UNCHANGED <<entered, mcp_error>>
    /\ McpUnchanged

McpNext == FailBeforeConnect \/ ConnectServer \/ RunStages \/ close_all_mcp_adapters
McpSpec == McpInit /\ [][McpNext]_vars

----------------------------------------------------------------------------
(* Two pipeline runs appending to user_memory.json with no lock *)

\* user_memory.json as the program leaves it: absent, cut short by a write
\* that stopped, or an object with a trip_history list
ConcFiles == {f \in InitialFiles : f.kind \in {"absent", "unparseable", "dict_ok"}}

ConcInit ==
    /\ pc = "Appending"
    /\ memfile \in ConcFiles
    /\ memfile0 = memfile
    /\ RestOfRun
    /\ McpIdle
    /\ ConcIdle

ConcUnchanged ==
    UNCHANGED <<pc, now, email, cfg, user_profile_json, flight_json, parking_json,
                departure_json, notif_raw, calls, memfile0, seqno, crashes, lastOp,
                funVars, mcpVars>>

\* line 294 of append_trip_memory in run r: memory = load_user_memory()
ConcLoad(r) ==
    /\ rpc[r] = "idle"
    /\ loaded' = [loaded EXCEPT ![r] = load_user_memory(memfile)]
    /\ overlap' = (overlap \/ \E q \in Runs \ {r} : rpc[q] = "loaded")
    /\ rpc' = [rpc EXCEPT ![r] = "loaded"]
    /\ UNCHANGED <<memfile, appended>>
    /\ ConcUnchanged

\* lines 295-311 in run r: the entry of run r is appended to the history
\* loaded before, the last 20 entries are kept and the file is rewritten
ConcSave_reload(r) ==
    /\ rpc[r] = "loaded"
    /\ memfile' = append_trip_memory(memfile, r, TRUE).file
    /\ appended' = Append(appended, r)
    /\ rpc' = [rpc EXCEPT ![r] = "saved"]
    /\ UNCHANGED <<loaded, overlap>>
    /\ ConcUnchanged
ConcSave(r) ==
    /\ rpc[r] = "loaded"
    /\ memfile' = append_trip_memory(loaded[r], r, TRUE).file
    /\ appended' = Append(appended, r)
    /\ rpc' = [rpc EXCEPT ![r] = "saved"]
    /\ UNCHANGED <<loaded, overlap>>
    /\ ConcUnchanged

ConcNext == \E r \in Runs : ConcLoad(r) \/ ConcSave(r)
ConcSpec == ConcInit /\ [][ConcNext]_vars

----------------------------------------------------------------------------
(* Properties *)

CallIndices == 1..Len(calls)

\* C1: the scheduler is never asked to create a job whose run time is at or
\* before the current UTC instant of the run, in either registrar function.
C1_NoStaleRegistration ==
    \A i \in CallIndices : Asked(calls[i]) => calls[i].run_time > now

\* C2: when the 5h_before registration call raises, the 2h_before
\* registration of the same pair is still attempted in the same run.
C2_IndependentRegistrations ==
    \A i \in CallIndices :
        (calls[i].tag = "5h_before" /\ calls[i].outcome = "failed")
        => \E j \in CallIndices :
               calls[j].fn = calls[i].fn /\ calls[j].tag = "2h_before"

\* C3: whatever is raised while the departure reminders are scheduled is
\* caught, and the run goes on to the step that executes append_trip_memory.
C3_SchedulingFailureCaught ==
    [][pc = "SchedulingAlerts" => pc' = "PersistingHistory"]_vars

\* the first element of best_flights is a flight whose departure_time_local
\* cannot be parsed
SelectedUnparseable ==
    /\ flight_json.shape = "wrapper"
    /\ flight_json.items # <<>>
    /\ flight_json.items[1].k = "flight"
    /\ flight_json.items[1].dep.k = "bad"

\* C4: when the selected flight's departure timestamp cannot be parsed, the
\* run ends with no registration made and with the trip appended to the
\* history.
C4_UnparseableDeparture ==
    (pc \in {"Done", "Aborted"} /\ SelectedUnparseable)
    => (calls = <<>> /\ lastOp = "ok")

\* the timestamp schedule_email_alerts_from_summary computes its triggers
\* from, when it gets as far as computing them
EmailTriggersComputed ==
    /\ email
    /\ flight_json.items # <<>>
    /\ flight_json.items[1].k = "flight"
    /\ LET f == flight_json.items[1]
           t == IF f.dep.k = "absent" THEN f.alt ELSE f.dep
       IN t.k \in {"naive", "aware"}
EmailTimestamp ==
    LET f == flight_json.items[1]
    IN IF f.dep.k = "absent" THEN f.alt ELSE f.dep
EmailAttempted(tag) ==
    \E i \in CallIndices : calls[i].fn = "email" /\ calls[i].tag = tag

\* C5: in schedule_email_alerts_from_summary a registration is attempted for
\* a trigger exactly when that trigger is strictly later than now, each
\* trigger on its own.
C5_StrictPerTrigger ==
    (pc = "Done" /\ EmailTriggersComputed)
    => LET dep == EmailTimestamp.wall - KstOffset IN
       /\ EmailAttempted("5h_before") <=> (dep - Hours5 > now)
       /\ EmailAttempted("2h_before") <=> (dep - Hours2 > now)

\* the instant a timestamp denotes: its own offset when it carries one,
\* Asia/Seoul otherwise
TrueUtc(t) == IF t.k = "aware" THEN t.wall - t.off ELSE t.wall - KstOffset

\* C6: every run time passed to the registrar is the departure instant in UTC
\* (own offset if explicit, Asia/Seoul if none) minus 5 hours for 5h_before
\* and minus 2 hours for 2h_before, in both scheduling paths.
C6_RunTimes ==
    \A i \in CallIndices :
        LET t == IF calls[i].fn = "departure"
                 THEN flight_json.items[1].dep
                 ELSE EmailTimestamp
            h == IF calls[i].tag = "5h_before" THEN Hours5 ELSE Hours2
        IN calls[i].run_time = TrueUtc(t) - h

\* C7: after every append_trip_memory call, whatever was stored before, the
\* persisted trip_history holds at most 20 entries.
C7_AtMostTwenty ==
    [][seqno' # seqno => Len(memfile'.hist) <= MaxHistory]_vars

\* an append completed on a log that held more than 20 entries
C7_Witness ==
    /\ lastOp = "ok"
    /\ Len(memfile0.hist) > MaxHistory
    /\ Len(memfile.hist) = MaxHistory

StartedEmpty == memfile0.kind = "absent" \/ memfile0 = File("dict_ok", <<>>)

\* C8: starting from an empty store, after n appends the persisted
\* trip_history is exactly the last min(n, 20) appended entries, in insertion
\* order; after 25 appends entries 6..25 remain and entry 5 is absent.
C8_LastEntriesInOrder ==
    (pc = "Store" /\ StartedEmpty /\ seqno > 0)
    => /\ memfile.kind = "dict_ok"
       /\ Len(memfile.hist) = (IF seqno < MaxHistory THEN seqno ELSE MaxHistory)
       /\ \A i \in 1..Len(memfile.hist) :
              memfile.hist[i] = seqno - Len(memfile.hist) + i
       /\ seqno = MaxHistory + 5
          => /\ memfile.hist[1] = 6
             /\ \A i \in 1..Len(memfile.hist) : memfile.hist[i] # 5

\* 25 appends on an empty store
C8_Witness ==
    /\ pc = "Store"
    /\ StartedEmpty
    /\ seqno = MaxHistory + 5
    /\ Len(memfile.hist) = MaxHistory
    /\ memfile.hist[1] = 6

\* C9: whatever user_memory.json contains, load_user_memory yields a usable
\* log and the append_trip_memory that follows completes, leaving a history
\* that ends with the new entry.
C9_CorruptNeverFatal ==
    pc = "Store"
    => /\ lastOp # "load_unusable"
       /\ lastOp # "raised"
       /\ lastOp = "ok"
          => /\ memfile.hist # <<>>
             /\ memfile.hist[Len(memfile.hist)] = seqno

\* what the next load_user_memory returns of the entries in file content f
LoadedEntries(f) == IF f.kind = "dict_ok" THEN f.hist ELSE <<>>

\* C10: append_trip_memory persists atomically: an append whose write fails
\* leaves the complete previous log (or the complete new one), so no entry
\* stored before is lost on the next load.
C10_AtomicPersist ==
    [][(seqno' # seqno /\ lastOp' = "save_failed")
       => \A i \in 1..Len(LoadedEntries(memfile)) :
              \E j \in 1..Len(LoadedEntries(memfile')) :
                  LoadedEntries(memfile')[j] = LoadedEntries(memfile)[i]]_vars

\* a precondition of the registrar is absent: the feature flag is disabled
\* or unset, or the client, the Lambda ARN or the role ARN is missing
PreconditionAbsent(c) ==
    c.enabled \in {"unset", "false"} \/ ~c.client \/ ~c.lambda_arn \/ ~c.role_arn

\* C11: when a registrar precondition is absent, every registration call
\* reports "skipped", does not raise, and the scheduler is not called.
C11_SkippedWhenPreconditionAbsent ==
    PreconditionAbsent(cfg)
    => \A i \in CallIndices : calls[i].outcome = "skipped" /\ ~calls[i].raises

\* C12: no registrar call lets an error of scheduler.create_schedule reach
\* its caller; the call ends as registered, skipped or failed.
C12_NoPropagation ==
    \A i \in CallIndices :
        /\ calls[i].outcome \in {"registered", "skipped", "failed"}
        /\ ~calls[i].raises

\* the text holds no 5-hour marker (None and the empty text included)
NoFirstMarker(nr) == nr.none \/ FirstIndex(nr.text, "M5") = 0

\* C13: for every notification text without the 5-hour marker (an absent or
\* empty text, a text with only the 2-hour marker), extract_alert_bodies
\* returns (None, None).
C13_NoFirstMarker ==
    (pc = "SplitDone" /\ NoFirstMarker(inp)) => out = <<NoneBody, NoneBody>>

\* a text with the 2-hour marker only was split
C13_Witness ==
    /\ pc = "SplitDone"
    /\ ~inp.none
    /\ FirstIndex(inp.text, "M2") > 0
    /\ FirstIndex(inp.text, "M5") = 0
    /\ out = <<NoneBody, NoneBody>>

\* C14: when the 5-hour marker is absent from the notification text, each
\* e-mail registration carries the whole raw text as its body, for 5h_before
\* and for 2h_before, and the registrations are made: the 5h_before one
\* whenever its trigger is in the future.
C14_FallbackBodies ==
    NoFirstMarker(notif_raw)
    => /\ \A i \in CallIndices :
              calls[i].fn = "email" => calls[i].body = Body(FALSE, StrOf(notif_raw))
       /\ (pc = "Done" /\ EmailTriggersComputed
           /\ EmailTimestamp.wall - KstOffset - Hours5 > now)
          => EmailAttempted("5h_before")

\* both e-mail registrations were made with the whole text as body
C14_Witness ==
    /\ pc = "Done"
    /\ ~notif_raw.none
    /\ FirstIndex(notif_raw.text, "M5") = 0
    /\ \E i, j \in CallIndices :
          /\ calls[i].fn = "email" /\ calls[i].tag = "5h_before"
          /\ calls[j].fn = "email" /\ calls[j].tag = "2h_before"
          /\ calls[i].outcome = "registered" /\ calls[j].outcome = "registered"
          /\ calls[i].body = Body(FALSE, notif_raw.text)
          /\ calls[j].body = Body(FALSE, notif_raw.text)

\* a string with no recoverable data: empty, whitespace only, or prose
\* (fence marks included) with no brace and no JSON value
NoStructuredData(raw) ==
    /\ raw.kind = "str"
    /\ \A i \in 1..Len(raw.text) : raw.text[i] \in {"w", "sp", "E", "F"}

\* C15: parse_json_safe never raises, whatever it is given (None, a mapping,
\* any string, a value of another type); for the empty string, a whitespace
\* string and prose without braces it returns None.
C15_NeverRaises ==
    pc = "Parsed"
    => /\ out.t # "raised"
       /\ NoStructuredData(inp) => out = NoneValue

\* a string with braces that no step could parse gave None
C15_Witness ==
    /\ pc = "Parsed"
    /\ inp.kind = "str"
    /\ FirstIndex(inp.text, "{") > 0
    /\ LastIndex(inp.text, "}") > FirstIndex(inp.text, "{")
    /\ OutermostBraces(Strip(inp.text)) = Raised
    /\ out = NoneValue

\* tokens i..j of text are a JSON object J standing on its own
IsObject(text, i, j) ==
    /\ i < j
    /\ text[i] = "{"
    /\ text[j] = "}"
    /\ json_loads(SubSeq(text, i, j)).t = "dict"

\* J = text[i..j], every token around it is prose drawn from P
Bare(text, i, j, P) ==
    /\ IsObject(text, i, j)
    /\ \A k \in (1..Len(text)) \ (i..j) : text[k] \in P

\* J = text[i..j] is the interior of a ```json ... ``` block opened at f and
\* closed at e
Fenced(text, f, i, j, e) ==
    /\ f < i /\ j < e
    /\ text[f] = "F"
    /\ text[e] = "E"
    /\ IsObject(text, i, j)
    /\ \A k \in ((f + 1)..(i - 1)) \cup ((j + 1)..(e - 1)) : text[k] = "sp"

InstantUtc(dt) == dt.wall - (IF dt.aware THEN dt.off ELSE 0)

\* C17: every run time is rendered as the one-shot expression at(...) naming
\* the same instant in UTC without offset (a datetime of another zone is
\* converted to UTC first); no rate or cron expression is produced.
C17_AtExpressionUtc ==
    pc = "Formatted" => out = Expression("at", InstantUtc(inp))

\* an Asia/Seoul datetime was rendered nine hours earlier than its wall clock
C17_Witness ==
    /\ pc = "Formatted"
    /\ inp.aware
    /\ inp.off = KstOffset
    /\ out.form = "at"
    /\ out.hour = inp.wall - KstOffset

\* the jobs created for tag by registrar function fn
Registered(fn, tag) ==
    {i \in CallIndices :
        calls[i].fn = fn /\ calls[i].tag = tag /\ calls[i].outcome = "registered"}
AllRegistered == {i \in CallIndices : calls[i].outcome = "registered"}

C19_AlwaysCompletes ==
    /\ pc # "Aborted"
    /\ pc = "Done" => (lastOp = "ok" /\ appended # <<>>)

\* C20: when the user was asked for the trip and gave no recipient e-mail
\* address, the run makes no registration at all, and it still ends with the
\* trip appended to the history.
C20_NoEmailNoRegistration ==
    (pc # "Start" /\ memfile0.kind # "list" /\ ~email)
    => /\ calls = <<>>
       /\ pc \in {"Done", "Aborted"} => (pc = "Done" /\ lastOp = "ok")

\* the text holds the 5-hour marker
HasFirstMarker(nr) == ~nr.none /\ FirstIndex(nr.text, "M5") > 0

\* position of the first 2-hour marker after the first 5-hour marker, 0
\* when there is none
SecondMarker(text) ==
    LET i5 == FirstIndex(text, "M5")
        later == {i \in (i5 + 1)..Len(text) : text[i] = "M2"}
    IN IF later = {} THEN 0 ELSE CHOOSE i \in later : \A j \in later : i <= j

\* the trimmed text between the two markers (or up to the end of the text)
Between(text) ==
    LET i5 == FirstIndex(text, "M5")
        i2 == SecondMarker(text)
    IN Strip(SubSeq(text, i5 + 1, IF i2 = 0 THEN Len(text) ELSE i2 - 1))

\* the trimmed text after the 2-hour marker
AfterSecond(text) == Strip(SubSeq(text, SecondMarker(text) + 1, Len(text)))

\* C21: for a text with the 5-hour marker, body_5h is the trimmed text
\* between the first 5-hour marker and the first 2-hour marker after it (or
\* the end of the text), and body_2h is the text after that 2-hour marker
\* when the marker was found, None otherwise.
C21_SplitAtFirstMarkers ==
    (pc = "SplitDone" /\ HasFirstMarker(inp))
    => /\ out[1] = Body(FALSE, Between(inp.text))
       /\ out[2] = IF SecondMarker(inp.text) = 0 THEN NoneBody
                   ELSE Body(FALSE, AfterSecond(inp.text))

\* C21 as it holds: body_2h is the trimmed text after the 2-hour marker when
\* the marker was found and that text is not empty, None otherwise.
C21_SplitEmptyIsNone ==
    (pc = "SplitDone" /\ HasFirstMarker(inp))
    => /\ out[1] = Body(FALSE, Between(inp.text))
       /\ out[2] = IF SecondMarker(inp.text) = 0 \/ AfterSecond(inp.text) = <<>>
                   THEN NoneBody
                   ELSE Body(FALSE, AfterSecond(inp.text))

\* a text repeating both markers was split at their first occurrences
C21_Witness ==
    /\ pc = "SplitDone"
    /\ inp = Notif(FALSE, <<"M5", "M5", "M2", "M2">>)
    /\ out = <<Body(FALSE, <<"M5">>), Body(FALSE, <<"M2">>)>>

\* C22: the result of parse_json_safe is always a mapping or None, never a
\* sequence, a number, a string or a boolean.
C22_MappingOrNone ==
    pc = "Parsed" => out.t \in {"dict", "none"}

\* the interior of the first ```json ... ``` block, parsed; an exception
\* when the text holds no such block
HasFence(text) ==
    \E f, e \in 1..Len(text) : f < e /\ text[f] = "F" /\ text[e] \in {"E", "F"}
FenceInterior(text) ==
    IF ~HasFence(text) THEN Raised
    ELSE LET f == CHOOSE i \in 1..Len(text) :
                      text[i] = "F" /\ \A k \in 1..(i - 1) : text[k] # "F"
             e == CHOOSE i \in (f + 1)..Len(text) :
                      /\ text[i] \in {"E", "F"}
                      /\ \A k \in (f + 1)..(i - 1) : text[k] \notin {"E", "F"}
         IN json_loads(SubSeq(text, f + 1, e - 1))

\* the substring from the first "{" to the last "}", parsed
BraceSpan(text) ==
    LET opens == {i \in 1..Len(text) : text[i] = "{"}
        closes == {i \in 1..Len(text) : text[i] = "}"}
    IN IF opens = {} \/ closes = {} THEN Raised
       ELSE LET a == CHOOSE i \in opens : \A k \in opens : i <= k
                b == CHOOSE i \in closes : \A k \in closes : k <= i
            IN json_loads(SubSeq(text, a, b))

\* the first strategy of the list that does not raise, None when all raise
RECURSIVE FirstSuccess(_)
FirstSuccess(results) ==
    IF results = <<>> THEN NoneValue
    ELSE IF Head(results).t # "raised" THEN Head(results)
    ELSE FirstSuccess(Tail(results))

\* C23: parse_json_safe returns a mapping input unchanged, and for a string
\* the first success of: the interior of a ```json block, the entire trimmed
\* text, the substring from the first "{" to the last "}"; a strategy that
\* fails never stops the later ones.
C23_PriorityOrder ==
    pc = "Parsed"
    => out = IF inp.kind = "dict" THEN Mapping(inp.n)
             ELSE LET text == Strip(inp.text) IN
                  FirstSuccess(<<FenceInterior(text), json_loads(text),
                                 BraceSpan(text)>>)

\* the states of a run in the order the run goes through them
RunOrder ==
    <<"Start">> \o StageOrder
    \o <<"SchedulingAlerts", "PersistingHistory", "SchedulingEmails", "Done",
         "Aborted">>
Rank(state) == CHOOSE i \in 1..Len(RunOrder) : RunOrder[i] = state

\* the stages that have produced their output when the run is in state
Produced(state) ==
    {StageOrder[i] : i \in {k \in 1..Len(StageOrder) : Rank(StageOrder[k]) < Rank(state)}}

\* every step moves the run forward, and a stage is entered only when the
\* stages of its context have produced their output
ForwardStep ==
    /\ Rank(pc') > Rank(pc)
    /\ \A i \in 1..Len(StageOrder) :
           pc' = StageOrder[i] => Context(pc') \subseteq Produced(pc')

C25_ReleasedOnce ==
    /\ \A s \in ServerSet : exit_calls[s] <= 1
    /\ pc = "Exited"
       => /\ \A s \in ServerSet : exit_calls[s] = (IF s \in entered THEN 1 ELSE 0)
          /\ ACTIVE_MCP_ADAPTERS = <<>>

\* listing the tools of the third connection failed and the __exit__ of
\* the first one raised: all three were released
C25_Witness ==
    /\ pc = "Exited"
    /\ mcp_error = "list_failed"
    /\ entered = {"icn", "flight", "fli"}
    /\ "icn" \in exit_failed
    /\ \A s \in entered : exit_calls[s] = 1

HoursOf(tag) == IF tag = "5h_before" THEN Hours5 ELSE Hours2

\* best_flights is present and not empty
HasBestFlights == flight_json.shape = "wrapper" /\ flight_json.items # <<>>

\* C26: the triggers are always computed from the first element of
\* best_flights, in every scheduling path; when best_flights is absent or
\* empty no registration is made.
C26_FirstOfBestFlights ==
    (\E i \in CallIndices : calls[i].outcome = "registered")
    => /\ HasBestFlights
       /\ \A i \in CallIndices :
              calls[i].run_time + HoursOf(calls[i].tag) =
                  IF calls[i].fn = "departure"
                  THEN DepUtc(flight_json.items[1].dep)
                  ELSE DepUtcSeoul(DepartureTimeStr(flight_json.items[1]))

\* C26 as it holds: the departure reminders need a non-empty best_flights;
\* the e-mail reminders are also made from the first element of another
\* flight list of the record, of a top-level list, or from a record that is
\* one flight; each path computes its triggers from the first element.
C26_FirstOfTheFlightList ==
    \A i \in CallIndices :
        /\ flight_json.items # <<>>
        /\ calls[i].fn = "departure" => HasBestFlights
        /\ calls[i].run_time + HoursOf(calls[i].tag) =
               IF calls[i].fn = "departure"
               THEN DepUtc(flight_json.items[1].dep)
               ELSE DepUtcSeoul(DepartureTimeStr(flight_json.items[1]))

\* e-mail reminders were registered for a record without best_flights, and
\* no departure reminder was
C26_Witness ==
    /\ pc = "Done"
    /\ flight_json.shape \in {"altwrapper", "single", "list"}
    /\ calls # <<>>
    /\ \A i \in CallIndices :
          calls[i].fn = "email" /\ calls[i].outcome = "registered"

\* the entries of the two runs that the stored history holds
NewEntriesStored ==
    {r \in Runs : \E i \in 1..Len(memfile.hist) : memfile.hist[i] = r}
BothSaved == \A r \in Runs : rpc[r] = "saved"

\* C27: when both runs load the file before either saves, the stored
\* history afterwards holds only one of the two new entries; when the
\* appends do not interleave it holds both.
C27_LostUpdate ==
    BothSaved
    => /\ memfile.kind = "dict_ok"
       /\ Cardinality(NewEntriesStored) = (IF overlap THEN 1 ELSE 2)
       /\ overlap => NewEntriesStored = {appended[2]}

\* two interleaved appends on a stored history: the entry of the run that
\* saved first is lost
C27_Witness ==
    /\ BothSaved
    /\ overlap
    /\ memfile0.kind = "dict_ok"
    /\ memfile0.hist # <<>>
    /\ appended = <<1, 2>>
    /\ NewEntriesStored = {2}

\* the e-mail registration attempts of the run, in the order they were made
EmailCalls == SelectSeq(calls, LAMBDA c : c.fn = "email")
EmailTags == [i \in 1..Len(EmailCalls) |-> EmailCalls[i].tag]

\* C28: in schedule_email_alerts_from_summary the 2h_before trigger is 3
\* hours after the 5h_before trigger; unless a scheduler call raises, the
\* tags attempted are none, 2h_before alone, or 5h_before then 2h_before.
C28_TagsAttempted ==
    /\ (\A i \in 1..Len(EmailCalls) : ~EmailCalls[i].raises)
       => EmailTags \in {<<>>, <<"2h_before">>, <<"5h_before", "2h_before">>}
    /\ Len(EmailCalls) = 2
       => EmailCalls[2].run_time = EmailCalls[1].run_time + (Hours5 - Hours2)
    /\ \A i \in 1..Len(EmailCalls) :
           EmailCalls[i].tag = "5h_before" => (i = 1 /\ EmailCalls[i].run_time > now)

\* a finished run whose 5h trigger had passed: 2h_before alone was attempted
C28_Witness ==
    /\ pc = "Done"
    /\ EmailTags = <<"2h_before">>
    /\ EmailCalls[1].run_time > now
    /\ EmailCalls[1].run_time - (Hours5 - Hours2) <= now

\* the two sections of the notification text are both present and not empty
SectionsFound ==
    /\ HasFirstMarker(notif_raw)
    /\ Between(notif_raw.text) # <<>>
    /\ SecondMarker(notif_raw.text) # 0
    /\ AfterSecond(notif_raw.text) # <<>>

\* C29: every registration carries the content of its tag: the trigger time,
\* the subject and the body of that tag for an e-mail job, the trigger time
\* and a payload with that tag for a departure reminder; the two departure
\* payloads differ in the tag field only.
C29_ContentMatchesTag ==
    \A i \in CallIndices :
        LET c == calls[i] IN
        /\ c.tag \in {"5h_before", "2h_before"}
        /\ \A j \in CallIndices :
               calls[j].fn = c.fn
               => /\ c.run_time + HoursOf(c.tag) = calls[j].run_time + HoursOf(calls[j].tag)
                  /\ c.fn = "departure" => c.payload.common = calls[j].payload.common
        /\ c.fn = "departure" => c.payload.tag = c.tag
        /\ c.fn = "email"
           => /\ c.subject = (IF c.tag = "5h_before" THEN "subject_5h" ELSE "subject_2h")
              /\ c.payload = [subject |-> c.subject, body |-> c.body]
              /\ SectionsFound
                 => c.body = Body(FALSE, IF c.tag = "5h_before"
                                         THEN Between(notif_raw.text)
                                         ELSE AfterSecond(notif_raw.text))

\* all four jobs of a run were registered, the e-mail ones with the two
\* sections
C29_Witness ==
    /\ pc = "Done"
    /\ SectionsFound
    /\ Len(calls) = 4
    /\ \A i \in CallIndices : calls[i].outcome = "registered"
    /\ calls[1].payload.tag = "5h_before"
    /\ calls[2].payload.tag = "2h_before"
    /\ calls[3].body # calls[4].body

\* C30: the two e-mail bodies are chosen together: both are their own
\* section when both sections are found and not empty, both are the whole
\* raw text otherwise; a body is never None.
C30_BodiesChosenTogether ==
    \A i \in 1..Len(EmailCalls) :
        LET c == EmailCalls[i] IN
        /\ ~c.body.none
        /\ IF SectionsFound
           THEN /\ c.body.text \in {Between(notif_raw.text), AfterSecond(notif_raw.text)}
                /\ c.body.text # notif_raw.text
           ELSE c.body = Body(FALSE, StrOf(notif_raw))

\* only the 5-hour section was found: both bodies are the whole text
C30_Witness ==
    /\ pc = "Done"
    /\ HasFirstMarker(notif_raw)
    /\ Between(notif_raw.text) # <<>>
    /\ SecondMarker(notif_raw.text) = 0
    /\ Len(EmailCalls) = 2
    /\ EmailCalls[1].body = Body(FALSE, notif_raw.text)
    /\ EmailCalls[2].body = Body(FALSE, notif_raw.text)

====
